---- MODULE Spec2Model ----
(***************************************************************************)
(* A model of the two programs of the repository:                          *)
(*   amplify-sim.py      the build-cycle simulator (one thread)            *)
(*   fake_cryptominer.py FakeMiner: a main thread, cpu workers, a reporter *)
(*                       thread and a progress thread sharing one object   *)
(* The variable prog says which of the two the process runs.               *)
(***************************************************************************)
EXTENDS Integers, Sequences, FiniteSets, TLC

VARIABLES
    prog,               \* "amplify" | "miner": the script the process runs
    url,                \* CLOUDFLARE_WEBHOOK_URL / args.slack_webhook_url ("" = unset)
    exitStatus,         \* status passed to sys.exit (0 while none)
    notes,              \* every notification handed to the transport, in order
    last,               \* what the most recent send call did (posts, log lines, result)
    allFailed,          \* amplify-sim: TRUE while every send_webhook so far returned False
    \* ---- amplify-sim.py
    pc,                 \* position of the amplify-sim main thread
    AMPLIFY_CURRENT_STAGE,
    BUILD_ID,
    cycle,              \* simulate_build_process calls begun
    i,                  \* loop index of the stage loop
    duration,           \* duration drawn for the current stage
    elapsed,            \* time.time() - start_time inside simulate_mining
    ticks,              \* iterations of the while loop of simulate_mining so far
    sim_shares_found,   \* simulate_mining's local shares_found
    sim_shares_accepted,\* simulate_mining's local shares_accepted
    sleepReturned,      \* the current stage's sleep (or mining loop) has run to its end
    cancelledAt,        \* where the KeyboardInterrupt arrived ("none" before)
    faultAt,            \* where an unexpected exception was raised ("none" before)
    \* ---- fake_cryptominer.py
    mpc,                \* position of the miner's main thread
    minerBuilt,         \* FakeMiner(args) has been constructed
    fsFault,            \* the step of _setup_directories the file system refuses ("none": no step)
    setupLog,           \* what _setup_directories has logged ("none" before it ran)
    idsSet,             \* self.instance_id and self.account_id are set
    threads,            \* args.threads
    running,            \* self.running
    shares_found,       \* self.shares_found
    shares_accepted,    \* self.shares_accepted
    shares_rejected,    \* self.shares_rejected
    hashrate,           \* self.hashrate
    spawned,            \* len(self.worker_threads)
    wpc,                \* position of each cpu worker
    wreg,               \* the value a worker has read and not yet written back
    calls,              \* _found_share calls begun
    completed,          \* _found_share calls returned
    rpc,                \* position of the reporter thread
    report_count,       \* _slack_reporter's local report_count
    ppc,                \* position of the progress thread
    stopAt,             \* where the miner's KeyboardInterrupt arrived ("none" before)
    callCap,            \* _found_share calls explored in this run
    reportCap           \* periodic reports explored in this run

commonVars == <<prog, url, exitStatus, notes, last, allFailed>>
ampVars == <<pc, AMPLIFY_CURRENT_STAGE, BUILD_ID, cycle, i, duration, elapsed, ticks,
             sim_shares_found, sim_shares_accepted, sleepReturned, cancelledAt,
             faultAt>>
minerVars == <<mpc, minerBuilt, fsFault, setupLog, idsSet, threads, running, shares_found, shares_accepted,
               shares_rejected, hashrate, spawned, wpc, wreg, calls, completed, rpc,
               report_count, ppc, stopAt, callCap, reportCap>>
vars == <<commonVars, ampVars, minerVars>>

----------------------------------------------------------------------------
\* Bounds of the model
MaxCycles == 2      \* build cycles explored
MaxShares == 2      \* shares found in one simulate_mining call
MaxInterim == 1     \* "Mining in progress" notifications in one run
DrawStep == 30      \* random draws are sampled every DrawStep values of their range
MaxThreads == 2     \* args.threads
MaxCalls == 3       \* _found_share calls in one run
MaxReports == 1     \* periodic reports of the reporter thread in one run
SmallThreads == 1   \* args.threads where every thread of the miner is followed to its end
SmallCalls == 1     \* _found_share calls there
SmallReports == 1   \* periodic reports there
ManyReports == 5    \* periodic reports where the reporter thread is followed through its fifth

\* Program constants
BuildMinSeconds == 30
BuildMaxSeconds == 90
StageMinSeconds == 10
StageMaxSeconds == 30
TickMinSeconds == 5
TickMaxSeconds == 10
HttpOk == 200
MinThreads == 1      \* the least default of --threads: max(1, cpu_count() - 1)

----------------------------------------------------------------------------
\* amplify-sim.py

AMPLIFY_STAGES == <<"PROVISIONING", "DOWNLOAD_SOURCE", "BUILD", "DEPLOY", "VERIFY">>
NumStages == Len(AMPLIFY_STAGES)

\* AMPLIFY_DOMAIN is computed once, from the first BUILD_ID
FirstBuildId == 1
AMPLIFY_DOMAIN == FirstBuildId

\* random.randint(lo, hi) / random.uniform(lo, hi) in whole seconds: the values
\* explored are both ends of the range and every DrawStep-th value between
RandInt(lo, hi) == {x \in lo..hi : x = hi \/ (x - lo) % DrawStep = 0}

\* the two ranges exchanged
StageDurationSwapped(stage) ==
    IF stage = "BUILD" THEN RandInt(StageMinSeconds, StageMaxSeconds)
                       ELSE RandInt(BuildMinSeconds, BuildMaxSeconds)

StageDuration(stage) ==
    IF stage = "BUILD" THEN RandInt(BuildMinSeconds, BuildMaxSeconds)
                       ELSE RandInt(StageMinSeconds, StageMaxSeconds)

\* What the transport does with one POST: it raises, or answers with a status
StatusSamples == {200, 204, 500}
Outcomes == {[raised |-> FALSE, status |-> s] : s \in StatusSamples}
            \cup {[raised |-> TRUE, status |-> 0]}
\* A delivery failed in the sense of the interface description: the transport
\* raised, or answered with a status outside 200..299
TransportFailed(o) == o.raised \/ o.status < 200 \/ o.status > 299

\* send_webhook without its "except Exception": a transport exception leaves it
SendWebhookUncaught(o) ==
    IF o.raised
    THEN [posts |-> 1, failLogs |-> 0, okLogs |-> 0, ret |-> FALSE, escapes |-> TRUE,
          outcome |-> o]
    ELSE IF o.status = HttpOk
         THEN [posts |-> 1, failLogs |-> 0, okLogs |-> 1, ret |-> TRUE,
               escapes |-> FALSE, outcome |-> o]
         ELSE [posts |-> 1, failLogs |-> 1, okLogs |-> 0, ret |-> FALSE,
               escapes |-> FALSE, outcome |-> o]

\* send_webhook after the payload is built: one POST, then the status test.
\* posts: calls of requests.post; failLogs / okLogs: lines logged; ret: the
\* value returned; escapes: an exception leaves the function
SendWebhook(o) ==
    IF o.raised
    THEN [posts |-> 1, failLogs |-> 1, okLogs |-> 0, ret |-> FALSE, escapes |-> FALSE,
          outcome |-> o]
    ELSE IF o.status = HttpOk
         THEN [posts |-> 1, failLogs |-> 0, okLogs |-> 1, ret |-> TRUE,
               escapes |-> FALSE, outcome |-> o]
         ELSE [posts |-> 1, failLogs |-> 1, okLogs |-> 0, ret |-> FALSE,
               escapes |-> FALSE, outcome |-> o]

NoSend == [posts |-> 0, failLogs |-> 0, okLogs |-> 0, ret |-> FALSE, escapes |-> FALSE,
           outcome |-> [raised |-> FALSE, status |-> 0]]

\* The payload send_webhook builds: text, color, the "Build Stage" field read
\* from AMPLIFY_CURRENT_STAGE (cur), the footer's BUILD_ID and the extra field
Payload(msg, about, msgBuild, color, cur, footer, urlBuild) ==
    [msg |-> msg, about |-> about, msgBuild |-> msgBuild, color |-> color,
     stage |-> AMPLIFY_STAGES[cur + 1], build |-> footer, urlBuild |-> urlBuild]

\* send_webhook handing a failed notification to the transport a second time
SendRetrying(msg, about, msgBuild, color, cur, urlBuild, o, next, onEscape) ==
    LET p == Payload(msg, about, msgBuild, color, cur, BUILD_ID, urlBuild)
        r == SendWebhook(o)
    IN  /\ notes' = IF r.ret THEN Append(notes, p) ELSE Append(Append(notes, p), p)
        /\ last' = [r EXCEPT !.posts = IF r.ret THEN 1 ELSE 2]
        /\ allFailed' = (allFailed /\ ~r.ret)
        /\ pc' = IF r.escapes THEN onEscape ELSE next

\* One call of send_webhook with transport outcome o; the caller goes on at
\* next, or at onEscape when an exception leaves send_webhook
Send(msg, about, msgBuild, color, cur, urlBuild, o, next, onEscape) ==
    /\ notes' = Append(notes, Payload(msg, about, msgBuild, color, cur, BUILD_ID, urlBuild))
    /\ last' = SendWebhook(o)
    /\ allFailed' = (allFailed /\ ~SendWebhook(o).ret)
    /\ pc' = IF SendWebhook(o).escapes THEN onEscape ELSE next

NoteCount(msg, build) ==
    Cardinality({k \in 1..Len(notes) : notes[k].msg = msg /\ notes[k].build = build})

InterimCount == Cardinality({k \in 1..Len(notes) : notes[k].msg = "Mining in progress"})

\* main(): the URL check
Main ==
    /\ prog = "amplify" /\ pc = "main"
    /\ IF url = ""
       THEN pc' = "exited" /\ exitStatus' = 1
       ELSE pc' = "creds" /\ UNCHANGED exitStatus
    /\ UNCHANGED <<prog, url, notes, last, allFailed, AMPLIFY_CURRENT_STAGE, BUILD_ID,
                   cycle, i, duration, elapsed, ticks, sim_shares_found, sim_shares_accepted,
                   sleepReturned, cancelledAt, faultAt, minerVars>>

\* simulate_aws_credentials(): a 10% draw, then one notification
SimulateAwsCredentials ==
    /\ pc = "creds"
    /\ \E leak \in BOOLEAN, o \in Outcomes :
          IF leak
          THEN Send("Build environment contains AWS credentials", "-", 0, "danger",
                    AMPLIFY_CURRENT_STAGE, 0, o, "build_start", "killed")
          ELSE pc' = "build_start" /\ UNCHANGED <<notes, last, allFailed>>
    /\ UNCHANGED <<prog, url, exitStatus, AMPLIFY_CURRENT_STAGE, BUILD_ID, cycle, i,
                   duration, elapsed, ticks, sim_shares_found, sim_shares_accepted,
                   sleepReturned, cancelledAt, faultAt, minerVars>>

\* simulate_build_process(): the initial report
BuildStart ==
    /\ pc = "build_start"
    /\ \E o \in Outcomes :
          Send("Build started", "-", BUILD_ID, "good", AMPLIFY_CURRENT_STAGE, 0, o,
               "stage_begin", "error")
    /\ cycle' = cycle + 1
    /\ i' = 0
    /\ UNCHANGED <<prog, url, exitStatus, AMPLIFY_CURRENT_STAGE, BUILD_ID, duration,
                   elapsed, ticks, sim_shares_found, sim_shares_accepted, sleepReturned,
                   cancelledAt, faultAt, minerVars>>

\* the stage loop calling simulate_mining in every stage
StageBeginMinesAll ==
    /\ pc = "stage_begin"
    /\ AMPLIFY_CURRENT_STAGE' = i
    /\ sleepReturned' = FALSE
    /\ \E d \in StageDuration(AMPLIFY_STAGES[i + 1]), o \in Outcomes :
          /\ duration' = d
          /\ Send("Stage started", AMPLIFY_STAGES[i + 1], 0, "good", i, 0, o,
                  "mining_start", "error")
    /\ UNCHANGED <<prog, url, exitStatus, BUILD_ID, cycle, i, elapsed, ticks,
                   sim_shares_found, sim_shares_accepted, cancelledAt, faultAt,
                   minerVars>>

\* the head of one iteration of the stage loop, up to "Stage started"
StageBegin ==
    /\ pc = "stage_begin"
    /\ AMPLIFY_CURRENT_STAGE' = i
    /\ sleepReturned' = FALSE
    /\ \E d \in StageDuration(AMPLIFY_STAGES[i + 1]), o \in Outcomes :
          /\ duration' = d
          /\ Send("Stage started", AMPLIFY_STAGES[i + 1], 0, "good", i, 0, o,
                  IF AMPLIFY_STAGES[i + 1] = "BUILD" THEN "mining_start" ELSE "sleeping",
                  "error")
    /\ UNCHANGED <<prog, url, exitStatus, BUILD_ID, cycle, i, elapsed, ticks,
                   sim_shares_found, sim_shares_accepted, cancelledAt, faultAt,
                   minerVars>>

\* time.sleep(duration) of a non-mining stage returns
SleepReturn ==
    /\ pc = "sleeping"
    /\ sleepReturned' = TRUE
    /\ pc' = "stage_end"
    /\ UNCHANGED <<commonVars, AMPLIFY_CURRENT_STAGE, BUILD_ID, cycle, i, duration,
                   elapsed, ticks, sim_shares_found, sim_shares_accepted, cancelledAt, faultAt,
                   minerVars>>

\* simulate_mining(duration): the locals and the initial mining report
MiningStart ==
    /\ pc = "mining_start"
    /\ elapsed' = 0
    /\ ticks' = 0
    /\ sim_shares_found' = 0
    /\ sim_shares_accepted' = 0
    /\ \E o \in Outcomes :
          Send("Mining started", "-", 0, "warning", AMPLIFY_CURRENT_STAGE, 0, o,
               "mining_loop", "error")
    /\ UNCHANGED <<prog, url, exitStatus, AMPLIFY_CURRENT_STAGE, BUILD_ID, cycle, i,
                   duration, sleepReturned, cancelledAt, faultAt, minerVars>>

\* one iteration of the while loop of simulate_mining: the share draw, the
\* status draw with its notification, then time.sleep(random.uniform(5, 10))
MiningTick ==
    /\ pc = "mining_loop"
    /\ elapsed < duration
    /\ \E share \in BOOLEAN, status \in BOOLEAN,
          nap \in RandInt(TickMinSeconds, TickMaxSeconds), o \in Outcomes :
          /\ share => sim_shares_found < MaxShares
          /\ status => InterimCount < MaxInterim
          /\ sim_shares_found' = IF share THEN sim_shares_found + 1 ELSE sim_shares_found
          /\ sim_shares_accepted' =
                IF share THEN sim_shares_accepted + 1 ELSE sim_shares_accepted
          /\ IF status
             THEN Send("Mining in progress", "-", 0, "warning", AMPLIFY_CURRENT_STAGE,
                       0, o, "mining_loop", "error")
             ELSE UNCHANGED <<pc, notes, last, allFailed>>
          /\ elapsed' = elapsed + nap
          /\ ticks' = ticks + 1
    /\ UNCHANGED <<prog, url, exitStatus, AMPLIFY_CURRENT_STAGE, BUILD_ID, cycle, i,
                   duration, sleepReturned, cancelledAt, faultAt, minerVars>>

\* simulate_mining returning without the test of its loop
MiningEndUntested ==
    /\ pc = "mining_loop"
    /\ \E o \in Outcomes :
          Send("Mining completed", "-", 0, "warning", AMPLIFY_CURRENT_STAGE, 0, o,
               "stage_end", "error")
    /\ elapsed' = 0
    /\ ticks' = 0
    /\ sleepReturned' = TRUE
    /\ UNCHANGED <<prog, url, exitStatus, AMPLIFY_CURRENT_STAGE, BUILD_ID, cycle, i,
                   duration, sim_shares_found, sim_shares_accepted, cancelledAt,
                   faultAt, minerVars>>

\* the loop test fails: the final mining report, and simulate_mining returns
MiningEnd ==
    /\ pc = "mining_loop"
    /\ ~(elapsed < duration)
    /\ \E o \in Outcomes :
          Send("Mining completed", "-", 0, "warning", AMPLIFY_CURRENT_STAGE, 0, o,
               "stage_end", "error")
    /\ elapsed' = 0                 \* start_time is dead once the call returns
    /\ ticks' = 0
    /\ sleepReturned' = TRUE
    /\ UNCHANGED <<prog, url, exitStatus, AMPLIFY_CURRENT_STAGE, BUILD_ID, cycle, i,
                   duration, sim_shares_found, sim_shares_accepted, cancelledAt,
                   faultAt, minerVars>>

\* the stage loop stepping over the stage after the current one
StageEndSkipsNext ==
    /\ pc = "stage_end"
    /\ \E o \in Outcomes :
          Send("Stage completed", AMPLIFY_STAGES[i + 1], 0, "good",
               AMPLIFY_CURRENT_STAGE, 0, o,
               IF i + 2 < NumStages THEN "stage_begin" ELSE "build_end", "error")
    /\ i' = IF i + 2 < NumStages THEN i + 2 ELSE NumStages
    /\ duration' = 0
    /\ UNCHANGED <<prog, url, exitStatus, AMPLIFY_CURRENT_STAGE, BUILD_ID, cycle,
                   elapsed, ticks, sim_shares_found, sim_shares_accepted, sleepReturned,
                   cancelledAt, faultAt, minerVars>>

\* the tail of one iteration of the stage loop: "Stage completed"
StageEnd ==
    /\ pc = "stage_end"
    /\ \E o \in Outcomes :
          Send("Stage completed", AMPLIFY_STAGES[i + 1], 0, "good",
               AMPLIFY_CURRENT_STAGE, 0, o,
               IF i + 1 < NumStages THEN "stage_begin" ELSE "build_end", "error")
    /\ i' = i + 1
    /\ duration' = 0                \* the drawn duration is dead after the stage
    /\ UNCHANGED <<prog, url, exitStatus, AMPLIFY_CURRENT_STAGE, BUILD_ID, cycle,
                   elapsed, ticks, sim_shares_found, sim_shares_accepted, sleepReturned,
                   cancelledAt, faultAt, minerVars>>

\* simulate_build_process returning without its final report
BuildEndSilent ==
    /\ pc = "build_end"
    /\ pc' = "logs"
    /\ UNCHANGED <<commonVars, AMPLIFY_CURRENT_STAGE, BUILD_ID, cycle, i,
                   duration, elapsed, ticks, sim_shares_found, sim_shares_accepted,
                   sleepReturned, cancelledAt, faultAt, minerVars>>

\* after the loop: the final report with the "Build URL" field
BuildEnd ==
    /\ pc = "build_end"
    /\ \E o \in Outcomes :
          Send("Build completed", "-", BUILD_ID, "good", AMPLIFY_CURRENT_STAGE,
               AMPLIFY_DOMAIN, o, "logs", "error")
    /\ UNCHANGED <<prog, url, exitStatus, AMPLIFY_CURRENT_STAGE, BUILD_ID, cycle, i,
                   duration, elapsed, ticks, sim_shares_found, sim_shares_accepted,
                   sleepReturned, cancelledAt, faultAt, minerVars>>

\* simulate_amplify_build_logs() building the sample and sending nothing
SimulateAmplifyBuildLogsSilent ==
    /\ pc = "logs"
    /\ pc' = "wait"
    /\ UNCHANGED <<commonVars, AMPLIFY_CURRENT_STAGE, BUILD_ID, cycle, i, duration,
                   elapsed, ticks, sim_shares_found, sim_shares_accepted, sleepReturned,
                   cancelledAt, faultAt, minerVars>>

\* simulate_amplify_build_logs()
SimulateAmplifyBuildLogs ==
    /\ pc = "logs"
    /\ \E o \in Outcomes :
          Send("Build logs contain suspicious commands", "-", 0, "danger",
               AMPLIFY_CURRENT_STAGE, 0, o, "wait", "error")
    /\ UNCHANGED <<prog, url, exitStatus, AMPLIFY_CURRENT_STAGE, BUILD_ID, cycle, i,
                   duration, elapsed, ticks, sim_shares_found, sim_shares_accepted,
                   sleepReturned, cancelledAt, faultAt, minerVars>>

\* the while True loop of main(): the wait returns and BUILD_ID is regenerated.
\* The "global BUILD_ID" statement stands at line 325, after main() has read
\* BUILD_ID at line 303; the assignment is modelled with the meaning the
\* statement declares (it rebinds the module's BUILD_ID).
WaitNext ==
    /\ pc = "wait"
    /\ cycle < MaxCycles
    /\ BUILD_ID' = BUILD_ID + 1
    /\ pc' = "build_start"
    /\ UNCHANGED <<commonVars, AMPLIFY_CURRENT_STAGE, cycle, i, duration, elapsed, ticks,
                   sim_shares_found, sim_shares_accepted, sleepReturned, cancelledAt,
                   faultAt, minerVars>>

\* where the main thread is inside the try block of main()
TryPcs == {"build_start", "stage_begin", "sleeping", "mining_start", "mining_loop",
           "stage_end", "build_end", "logs", "wait"}

\* a KeyboardInterrupt that is noted and otherwise ignored: the thread goes on
KeyboardInterruptIgnored ==
    /\ pc \in TryPcs \cup {"creds"}
    /\ cancelledAt = "none"
    /\ cancelledAt' = pc
    /\ UNCHANGED <<commonVars, pc, AMPLIFY_CURRENT_STAGE, BUILD_ID, cycle, i, duration,
                   elapsed, ticks, sim_shares_found, sim_shares_accepted, sleepReturned,
                   faultAt, minerVars>>

\* KeyboardInterrupt: raised in the main thread wherever it is; a time.sleep
\* in progress is abandoned. Inside the try block main's handler runs next,
\* before the try block nothing catches it.
KeyboardInterrupt ==
    /\ pc \in TryPcs \cup {"creds"}
    /\ cancelledAt = "none"
    /\ cancelledAt' = pc
    /\ pc' = IF pc \in TryPcs THEN "interrupted" ELSE "killed"
    /\ elapsed' = 0 /\ ticks' = 0   \* the frame of simulate_mining is unwound
    /\ UNCHANGED <<commonVars, AMPLIFY_CURRENT_STAGE, BUILD_ID, cycle, i, duration,
                   sim_shares_found, sim_shares_accepted, sleepReturned, faultAt,
                   minerVars>>

\* except KeyboardInterrupt sending its notification with a color of its own
InterruptHandlerErrorColor ==
    /\ pc = "interrupted"
    /\ \E o \in Outcomes :
          Send("Simulation stopped", "-", 0, "error", AMPLIFY_CURRENT_STAGE, 0, o,
               "done", "killed")
    /\ UNCHANGED <<prog, url, exitStatus, AMPLIFY_CURRENT_STAGE, BUILD_ID, cycle, i,
                   duration, elapsed, ticks, sim_shares_found, sim_shares_accepted,
                   sleepReturned, cancelledAt, faultAt, minerVars>>

\* except KeyboardInterrupt: one notification, then main returns
InterruptHandler ==
    /\ pc = "interrupted"
    /\ \E o \in Outcomes :
          Send("Simulation stopped", "-", 0, "danger", AMPLIFY_CURRENT_STAGE, 0, o,
               "done", "killed")
    /\ UNCHANGED <<prog, url, exitStatus, AMPLIFY_CURRENT_STAGE, BUILD_ID, cycle, i,
                   duration, elapsed, ticks, sim_shares_found, sim_shares_accepted,
                   sleepReturned, cancelledAt, faultAt, minerVars>>

\* where the try block calls log() outside send_webhook
LogPcs == {"stage_begin", "mining_loop", "wait"}

\* an exception other than a delivery failure, raised inside the try block
\* outside send_webhook (log()'s print is the one call there that can raise)
UnexpectedFailure ==
    /\ pc \in LogPcs
    /\ faultAt = "none"
    /\ faultAt' = pc
    /\ pc' = "error"
    /\ elapsed' = 0 /\ ticks' = 0   \* the frame of simulate_mining is unwound
    /\ UNCHANGED <<commonVars, AMPLIFY_CURRENT_STAGE, BUILD_ID, cycle, i, duration,
                   sim_shares_found, sim_shares_accepted, sleepReturned, cancelledAt,
                   minerVars>>

\* except Exception that reports the failure and starts the next build
ErrorHandlerRetries ==
    /\ pc = "error"
    /\ \E o \in Outcomes :
          Send("Simulation error", "-", 0, "danger", AMPLIFY_CURRENT_STAGE, 0, o,
               "build_start", "killed")
    /\ UNCHANGED <<prog, url, exitStatus, AMPLIFY_CURRENT_STAGE, BUILD_ID, cycle, i,
                   duration, elapsed, ticks, sim_shares_found, sim_shares_accepted,
                   sleepReturned, cancelledAt, faultAt, minerVars>>

\* except Exception: one notification, then main returns
ErrorHandler ==
    /\ pc = "error"
    /\ \E o \in Outcomes :
          Send("Simulation error", "-", 0, "danger", AMPLIFY_CURRENT_STAGE, 0, o,
               "done", "killed")
    /\ UNCHANGED <<prog, url, exitStatus, AMPLIFY_CURRENT_STAGE, BUILD_ID, cycle, i,
                   duration, elapsed, ticks, sim_shares_found, sim_shares_accepted,
                   sleepReturned, cancelledAt, faultAt, minerVars>>

----------------------------------------------------------------------------
\* fake_cryptominer.py

\* the values self.hashrate is set to (thread_hashrate * self.args.threads)
HashrateSamples == {1}

\* _send_slack_report / _send_detailed_slack_report after the payload is built:
\* one POST, then the status test; an exception is logged inside the function
SendSlackReport(o) ==
    IF o.raised
    THEN [posts |-> 1, failLogs |-> 1, okLogs |-> 0, ret |-> FALSE, escapes |-> FALSE,
          outcome |-> o]
    ELSE IF o.status # HttpOk
         THEN [posts |-> 1, failLogs |-> 1, okLogs |-> 0, ret |-> FALSE,
               escapes |-> FALSE, outcome |-> o]
         ELSE [posts |-> 1, failLogs |-> 0, okLogs |-> 1, ret |-> FALSE,
               escapes |-> FALSE, outcome |-> o]

\* One report of the miner with transport outcome o
MinerSend(msg, color, o) ==
    /\ notes' = Append(notes, [msg |-> msg, color |-> color])
    /\ last' = SendSlackReport(o)
    /\ UNCHANGED allFailed

Workers == 1..threads

\* the steps of _setup_directories that can fail: the os.makedirs calls, the
\* files written by _create_config_files
SetupFaults == {"none", "makedirs", "files"}

\* _setup_directories without its try block: the exception leaves it
SetupDirectoriesUncaught(fault) ==
    [log     |-> IF fault = "none" THEN "created" ELSE "none",
     dirs    |-> fault # "makedirs",
     files   |-> fault = "none",
     escapes |-> fault # "none"]

\* _setup_directories: makedirs, _create_config_files and the log line, all
\* inside try / except Exception, which logs the error and returns
SetupDirectories(fault) ==
    [log     |-> IF fault = "none" THEN "created" ELSE "error",
     dirs    |-> fault # "makedirs",
     files   |-> fault = "none",
     escapes |-> FALSE]

\* __main__ constructing the FakeMiner before it tests the URL
MinerMainBuildsFirst ==
    /\ prog = "miner" /\ mpc = "m_main"
    /\ minerBuilt' = TRUE /\ idsSet' = TRUE
    /\ setupLog' = SetupDirectories(fsFault).log
    /\ IF url = ""
       THEN mpc' = "m_exited" /\ exitStatus' = 1
       ELSE mpc' = "m_start" /\ UNCHANGED exitStatus
    /\ UNCHANGED <<prog, url, notes, last, allFailed, ampVars, fsFault, threads, running,
                   shares_found, shares_accepted, shares_rejected, hashrate, spawned,
                   wpc, wreg, calls, completed, rpc, report_count, ppc, stopAt,
                   callCap, reportCap>>

\* __main__: the URL check, then FakeMiner(args): __init__ calls
\* _setup_directories and afterwards sets the instance and account identifiers;
\* nothing in __main__ catches an exception leaving the constructor
MinerMain ==
    /\ prog = "miner" /\ mpc = "m_main"
    /\ IF url = ""
       THEN /\ mpc' = "m_exited" /\ exitStatus' = 1
            /\ UNCHANGED <<minerBuilt, setupLog, idsSet>>
       ELSE /\ setupLog' = SetupDirectories(fsFault).log
            /\ IF SetupDirectories(fsFault).escapes
               THEN mpc' = "m_killed" /\ UNCHANGED <<minerBuilt, idsSet>>
               ELSE mpc' = "m_start" /\ idsSet' = TRUE /\ minerBuilt' = TRUE
            /\ UNCHANGED exitStatus
    /\ UNCHANGED <<prog, url, notes, last, allFailed, ampVars, fsFault, threads, running,
                   shares_found, shares_accepted, shares_rejected, hashrate, spawned,
                   wpc, wreg, calls, completed, rpc, report_count, ppc, stopAt,
                   callCap, reportCap>>

\* start(): self.running = True
Start ==
    /\ mpc = "m_start"
    /\ running' = TRUE
    /\ mpc' = "m_spawn"
    /\ UNCHANGED <<commonVars, ampVars, minerBuilt, fsFault, setupLog, idsSet, threads, shares_found,
                   shares_accepted, shares_rejected, hashrate, spawned, wpc, wreg,
                   calls, completed, rpc, report_count, ppc, stopAt, callCap, reportCap>>

\* _start_cpu_simulation(): one t.start() of the loop over range(self.args.threads)
StartCpuSimulation ==
    /\ mpc = "m_spawn"
    /\ spawned < threads
    /\ spawned' = spawned + 1
    /\ wpc' = [wpc EXCEPT ![spawned + 1] = "loop"]
    /\ UNCHANGED <<commonVars, ampVars, mpc, minerBuilt, fsFault, setupLog, idsSet, threads, running, shares_found,
                   shares_accepted, shares_rejected, hashrate, wreg, calls, completed,
                   rpc, report_count, ppc, stopAt, callCap, reportCap>>

\* _start_slack_reporting(): the reporter thread starts
StartSlackReporting ==
    /\ mpc = "m_spawn"
    /\ spawned = threads
    /\ rpc' = "r_init"
    /\ mpc' = "m_spawn_progress"
    /\ UNCHANGED <<commonVars, ampVars, minerBuilt, fsFault, setupLog, idsSet, threads, running, shares_found,
                   shares_accepted, shares_rejected, hashrate, spawned, wpc, wreg,
                   calls, completed, report_count, ppc, stopAt, callCap, reportCap>>

\* _start_progress_reporting(): the progress thread starts
StartProgressReporting ==
    /\ mpc = "m_spawn_progress"
    /\ ppc' = "p_loop"
    /\ mpc' = "m_loop"
    /\ UNCHANGED <<commonVars, ampVars, minerBuilt, fsFault, setupLog, idsSet, threads, running, shares_found,
                   shares_accepted, shares_rejected, hashrate, spawned, wpc, wreg,
                   calls, completed, rpc, report_count, stopAt, callCap, reportCap>>

\* start(): the test of "while self.running" in the main thread
MainLoop ==
    /\ mpc = "m_loop"
    /\ mpc' = IF running THEN "m_sleep" ELSE "m_done"
    /\ UNCHANGED <<commonVars, ampVars, minerBuilt, fsFault, setupLog, idsSet, threads, running, shares_found,
                   shares_accepted, shares_rejected, hashrate, spawned, wpc, wreg,
                   calls, completed, rpc, report_count, ppc, stopAt, callCap, reportCap>>

\* start(): time.sleep(1) returns
MainSleep ==
    /\ mpc = "m_sleep"
    /\ mpc' = "m_loop"
    /\ UNCHANGED <<commonVars, ampVars, minerBuilt, fsFault, setupLog, idsSet, threads, running, shares_found,
                   shares_accepted, shares_rejected, hashrate, spawned, wpc, wreg,
                   calls, completed, rpc, report_count, ppc, stopAt, callCap, reportCap>>

\* where the main thread is inside miner.start()
StartPcs == {"m_start", "m_spawn", "m_spawn_progress", "m_loop", "m_sleep"}

\* KeyboardInterrupt in the main thread: start()'s handler, or __main__'s when
\* it arrives outside start()'s try block, calls stop()
MinerInterrupt ==
    /\ mpc \in StartPcs
    /\ stopAt = "none"
    /\ stopAt' = mpc
    /\ mpc' = "m_stop"
    /\ UNCHANGED <<commonVars, ampVars, minerBuilt, fsFault, setupLog, idsSet, threads, running, shares_found,
                   shares_accepted, shares_rejected, hashrate, spawned, wpc, wreg,
                   calls, completed, rpc, report_count, ppc, callCap, reportCap>>

\* stop(): self.running = False
Stop ==
    /\ mpc = "m_stop"
    /\ running' = FALSE
    /\ mpc' = "m_stop_send"
    /\ UNCHANGED <<commonVars, ampVars, minerBuilt, fsFault, setupLog, idsSet, threads, shares_found,
                   shares_accepted, shares_rejected, hashrate, spawned, wpc, wreg,
                   calls, completed, rpc, report_count, ppc, stopAt, callCap, reportCap>>

\* stop(): the final report; the joins that follow time out after one second each
StopReport ==
    /\ mpc = "m_stop_send"
    /\ \E o \in Outcomes : MinerSend("Miner stopped", "danger", o)
    /\ mpc' = "m_done"
    /\ UNCHANGED <<prog, url, exitStatus, ampVars, minerBuilt, fsFault, setupLog, idsSet, threads, running,
                   shares_found, shares_accepted, shares_rejected, hashrate, spawned,
                   wpc, wreg, calls, completed, rpc, report_count, ppc, stopAt,
                   callCap, reportCap>>

\* _cpu_worker looping on "while True"
WorkerLoopForever(w) ==
    /\ wpc[w] = "loop"
    /\ wpc' = [wpc EXCEPT ![w] = "iter"]
    /\ UNCHANGED <<commonVars, ampVars, mpc, minerBuilt, fsFault, setupLog, idsSet, threads, running, shares_found,
                   shares_accepted, shares_rejected, hashrate, spawned, wreg, calls,
                   completed, rpc, report_count, ppc, stopAt, callCap, reportCap>>

\* _cpu_worker: the test of "while self.running"
WorkerLoop(w) ==
    /\ wpc[w] = "loop"
    /\ wpc' = [wpc EXCEPT ![w] = IF running THEN "iter" ELSE "done"]
    /\ UNCHANGED <<commonVars, ampVars, mpc, minerBuilt, fsFault, setupLog, idsSet, threads, running, shares_found,
                   shares_accepted, shares_rejected, hashrate, spawned, wreg, calls,
                   completed, rpc, report_count, ppc, stopAt, callCap, reportCap>>

\* _cpu_worker: the head of one iteration of the hashing loop. The flag is
\* tested first; then the iteration finds a share, or the range is exhausted
\* (an iteration that finds nothing changes no state)
WorkerIter(w) ==
    /\ wpc[w] = "iter"
    /\ IF ~running
       THEN wpc' = [wpc EXCEPT ![w] = "upd"] /\ UNCHANGED calls
       ELSE \/ /\ calls < callCap
               /\ calls' = calls + 1
               /\ wpc' = [wpc EXCEPT ![w] = "fs_read"]
            \/ /\ wpc' = [wpc EXCEPT ![w] = "upd"]
               /\ UNCHANGED calls
    /\ UNCHANGED <<commonVars, ampVars, mpc, minerBuilt, fsFault, setupLog, idsSet, threads, running, shares_found,
                   shares_accepted, shares_rejected, hashrate, spawned, wreg,
                   completed, rpc, report_count, ppc, stopAt, callCap, reportCap>>

\* _found_share: self.shares_found += 1, the read
FoundRead(w) ==
    /\ wpc[w] = "fs_read"
    /\ wreg' = [wreg EXCEPT ![w] = shares_found]
    /\ wpc' = [wpc EXCEPT ![w] = "fs_write"]
    /\ UNCHANGED <<commonVars, ampVars, mpc, minerBuilt, fsFault, setupLog, idsSet, threads, running, shares_found,
                   shares_accepted, shares_rejected, hashrate, spawned, calls,
                   completed, rpc, report_count, ppc, stopAt, callCap, reportCap>>

\* _found_share: self.shares_found += 1, the write; then the acceptance draw
FoundWrite(w) ==
    /\ wpc[w] = "fs_write"
    /\ shares_found' = wreg[w] + 1
    /\ wreg' = [wreg EXCEPT ![w] = 0]
    /\ \E accepted \in BOOLEAN :
          wpc' = [wpc EXCEPT ![w] = IF accepted THEN "acc_read" ELSE "rej_read"]
    /\ UNCHANGED <<commonVars, ampVars, mpc, minerBuilt, fsFault, setupLog, idsSet, threads, running,
                   shares_accepted, shares_rejected, hashrate, spawned, calls,
                   completed, rpc, report_count, ppc, stopAt, callCap, reportCap>>

\* _found_share: self.shares_accepted += 1, the read
AcceptedRead(w) ==
    /\ wpc[w] = "acc_read"
    /\ wreg' = [wreg EXCEPT ![w] = shares_accepted]
    /\ wpc' = [wpc EXCEPT ![w] = "acc_write"]
    /\ UNCHANGED <<commonVars, ampVars, mpc, minerBuilt, fsFault, setupLog, idsSet, threads, running, shares_found,
                   shares_accepted, shares_rejected, hashrate, spawned, calls,
                   completed, rpc, report_count, ppc, stopAt, callCap, reportCap>>

\* _found_share: self.shares_accepted += 1, the write; the call returns
AcceptedWrite(w) ==
    /\ wpc[w] = "acc_write"
    /\ shares_accepted' = wreg[w] + 1
    /\ wreg' = [wreg EXCEPT ![w] = 0]
    /\ completed' = completed + 1
    /\ wpc' = [wpc EXCEPT ![w] = "iter"]
    /\ UNCHANGED <<commonVars, ampVars, mpc, minerBuilt, fsFault, setupLog, idsSet, threads, running, shares_found,
                   shares_rejected, hashrate, spawned, calls, rpc, report_count, ppc,
                   stopAt, callCap, reportCap>>

\* _found_share: self.shares_rejected += 1, the read
RejectedRead(w) ==
    /\ wpc[w] = "rej_read"
    /\ wreg' = [wreg EXCEPT ![w] = shares_rejected]
    /\ wpc' = [wpc EXCEPT ![w] = "rej_write"]
    /\ UNCHANGED <<commonVars, ampVars, mpc, minerBuilt, fsFault, setupLog, idsSet, threads, running, shares_found,
                   shares_accepted, shares_rejected, hashrate, spawned, calls,
                   completed, rpc, report_count, ppc, stopAt, callCap, reportCap>>

\* _found_share: self.shares_rejected += 1, the write; the call returns
RejectedWrite(w) ==
    /\ wpc[w] = "rej_write"
    /\ shares_rejected' = wreg[w] + 1
    /\ wreg' = [wreg EXCEPT ![w] = 0]
    /\ completed' = completed + 1
    /\ wpc' = [wpc EXCEPT ![w] = "iter"]
    /\ UNCHANGED <<commonVars, ampVars, mpc, minerBuilt, fsFault, setupLog, idsSet, threads, running, shares_found,
                   shares_accepted, hashrate, spawned, calls, rpc, report_count, ppc,
                   stopAt, callCap, reportCap>>

\* _cpu_worker: time.sleep(0.1), then the hashrate store inside
\* "with threading.Lock()": the lock is created by that statement, so no other
\* thread can hold it and the acquisition never waits
WorkerUpdate(w) ==
    /\ wpc[w] = "upd"
    /\ \E h \in HashrateSamples : hashrate' = h
    /\ wpc' = [wpc EXCEPT ![w] = "loop"]
    /\ UNCHANGED <<commonVars, ampVars, mpc, minerBuilt, fsFault, setupLog, idsSet, threads, running, shares_found,
                   shares_accepted, shares_rejected, spawned, wreg, calls, completed,
                   rpc, report_count, ppc, stopAt, callCap, reportCap>>

\* _slack_reporter: the initial report
ReporterInit ==
    /\ rpc = "r_init"
    /\ \E o \in Outcomes : MinerSend("Miner started", "good", o)
    /\ rpc' = "r_loop"
    /\ UNCHANGED <<prog, url, exitStatus, ampVars, mpc, minerBuilt, fsFault, setupLog, idsSet, threads, running,
                   shares_found, shares_accepted, shares_rejected, hashrate, spawned,
                   wpc, wreg, calls, completed, report_count, ppc, stopAt, callCap,
                   reportCap>>

\* _slack_reporter: the test of "while self.running"
ReporterLoop ==
    /\ rpc = "r_loop"
    /\ rpc' = IF running THEN "r_sleep" ELSE "done"
    /\ UNCHANGED <<commonVars, ampVars, mpc, minerBuilt, fsFault, setupLog, idsSet, threads, running, shares_found,
                   shares_accepted, shares_rejected, hashrate, spawned, wpc, wreg,
                   calls, completed, report_count, ppc, stopAt, callCap, reportCap>>

\* _slack_reporter without the test of the flag after its sleep
ReporterWakeNoCheck ==
    /\ rpc = "r_sleep"
    /\ report_count < reportCap
    /\ report_count' = report_count + 1
    /\ rpc' = "r_send"
    /\ UNCHANGED <<commonVars, ampVars, mpc, minerBuilt, fsFault, setupLog, idsSet, threads, running, shares_found,
                   shares_accepted, shares_rejected, hashrate, spawned, wpc, wreg,
                   calls, completed, ppc, stopAt, callCap, reportCap>>

\* _slack_reporter: time.sleep(beacon_interval) returns, the flag is tested
\* again and report_count advances
ReporterWake ==
    /\ rpc = "r_sleep"
    /\ IF ~running
       THEN rpc' = "done" /\ UNCHANGED report_count
       ELSE /\ report_count < reportCap
            /\ report_count' = report_count + 1
            /\ rpc' = "r_send"
    /\ UNCHANGED <<commonVars, ampVars, mpc, minerBuilt, fsFault, setupLog, idsSet, threads, running, shares_found,
                   shares_accepted, shares_rejected, hashrate, spawned, wpc, wreg,
                   calls, completed, ppc, stopAt, callCap, reportCap>>

\* _slack_reporter sending the simple report every time
ReporterSendAlwaysSimple ==
    /\ rpc = "r_send"
    /\ \E o \in Outcomes : MinerSend("Mining operation in progress", "good", o)
    /\ rpc' = "r_loop"
    /\ UNCHANGED <<prog, url, exitStatus, ampVars, mpc, minerBuilt, fsFault, setupLog, idsSet, threads, running,
                   shares_found, shares_accepted, shares_rejected, hashrate, spawned,
                   wpc, wreg, calls, completed, report_count, ppc, stopAt, callCap,
                   reportCap>>

\* _slack_reporter leaving its loop when a report has failed
ReporterSendStopsOnFailure ==
    /\ rpc = "r_send"
    /\ \E o \in Outcomes :
          /\ IF report_count % 5 = 0
             THEN MinerSend("Detailed status report of the simulated cryptominer", "good", o)
             ELSE MinerSend("Mining operation in progress", "good", o)
          /\ rpc' = IF SendSlackReport(o).failLogs = 1 THEN "done" ELSE "r_loop"
    /\ UNCHANGED <<prog, url, exitStatus, ampVars, mpc, minerBuilt, fsFault, setupLog, idsSet, threads, running,
                   shares_found, shares_accepted, shares_rejected, hashrate, spawned,
                   wpc, wreg, calls, completed, report_count, ppc, stopAt, callCap,
                   reportCap>>

\* _slack_reporter: every fifth report is the detailed one
ReporterSend ==
    /\ rpc = "r_send"
    /\ \E o \in Outcomes :
          IF report_count % 5 = 0
          THEN MinerSend("Detailed status report of the simulated cryptominer", "good", o)
          ELSE MinerSend("Mining operation in progress", "good", o)
    /\ rpc' = "r_loop"
    /\ UNCHANGED <<prog, url, exitStatus, ampVars, mpc, minerBuilt, fsFault, setupLog, idsSet, threads, running,
                   shares_found, shares_accepted, shares_rejected, hashrate, spawned,
                   wpc, wreg, calls, completed, report_count, ppc, stopAt, callCap,
                   reportCap>>

\* _progress_reporter: the test of "while self.running"
ProgressLoop ==
    /\ ppc = "p_loop"
    /\ ppc' = IF running THEN "p_sleep" ELSE "done"
    /\ UNCHANGED <<commonVars, ampVars, mpc, minerBuilt, fsFault, setupLog, idsSet, threads, running, shares_found,
                   shares_accepted, shares_rejected, hashrate, spawned, wpc, wreg,
                   calls, completed, rpc, report_count, stopAt, callCap, reportCap>>

\* _progress_reporter: the sleep returns; the progress line is logged if the
\* flag is still set
ProgressWake ==
    /\ ppc = "p_sleep"
    /\ ppc' = "p_loop"
    /\ UNCHANGED <<commonVars, ampVars, mpc, minerBuilt, fsFault, setupLog, idsSet, threads, running, shares_found,
                   shares_accepted, shares_rejected, hashrate, spawned, wpc, wreg,
                   calls, completed, rpc, report_count, stopAt, callCap, reportCap>>

----------------------------------------------------------------------------
InitCommon ==
    /\ url \in {"", "https://hooks.example/T"}
    /\ exitStatus = 0
    /\ notes = <<>>
    /\ last = NoSend
    /\ allFailed = TRUE

InitAmplify ==
    /\ pc = "main"
    /\ AMPLIFY_CURRENT_STAGE = 0
    /\ BUILD_ID = FirstBuildId
    /\ cycle = 0
    /\ i = 0
    /\ duration = 0
    /\ elapsed = 0
    /\ ticks = 0
    /\ sim_shares_found = 0
    /\ sim_shares_accepted = 0
    /\ sleepReturned = FALSE
    /\ cancelledAt = "none"
    /\ faultAt = "none"

\* FakeMiner.__init__ and the threads before they are started
InitMiner ==
    /\ mpc = "m_main"
    /\ minerBuilt = FALSE
    /\ setupLog = "none"
    /\ idsSet = FALSE
    /\ running = FALSE
    /\ shares_found = 0
    /\ shares_accepted = 0
    /\ shares_rejected = 0
    /\ hashrate = 0
    /\ spawned = 0
    /\ wpc = [w \in Workers |-> "idle"]
    /\ wreg = [w \in Workers |-> 0]
    /\ calls = 0
    /\ completed = 0
    /\ rpc = "idle"
    /\ report_count = 0
    /\ ppc = "idle"
    /\ stopAt = "none"

NextAmplify ==
    \/ Main
    \/ SimulateAwsCredentials
    \/ BuildStart
    \/ StageBegin
    \/ SleepReturn
    \/ MiningStart
    \/ MiningTick
    \/ MiningEnd
    \/ StageEnd
    \/ BuildEnd
    \/ SimulateAmplifyBuildLogs
    \/ WaitNext
    \/ KeyboardInterrupt
    \/ InterruptHandler
    \/ UnexpectedFailure
    \/ ErrorHandler

NextMiner ==
    \/ MinerMain
    \/ Start
    \/ StartCpuSimulation
    \/ StartSlackReporting
    \/ StartProgressReporting
    \/ MainLoop
    \/ MainSleep
    \/ MinerInterrupt
    \/ Stop
    \/ StopReport
    \/ \E w \in Workers :
          \/ WorkerLoop(w)
          \/ WorkerIter(w)
          \/ FoundRead(w)
          \/ FoundWrite(w)
          \/ AcceptedRead(w)
          \/ AcceptedWrite(w)
          \/ RejectedRead(w)
          \/ RejectedWrite(w)
          \/ WorkerUpdate(w)
    \/ ReporterInit
    \/ ReporterLoop
    \/ ReporterWake
    \/ ReporterSend
    \/ ProgressLoop
    \/ ProgressWake

\* the steps of each thread of the miner
MainStep ==
    \/ MinerMain \/ Start \/ StartCpuSimulation \/ StartSlackReporting
    \/ StartProgressReporting \/ MainLoop \/ MainSleep \/ Stop \/ StopReport
WorkerStep(w) ==
    \/ WorkerLoop(w) \/ WorkerIter(w) \/ FoundRead(w) \/ FoundWrite(w)
    \/ AcceptedRead(w) \/ AcceptedWrite(w) \/ RejectedRead(w) \/ RejectedWrite(w)
    \/ WorkerUpdate(w)
ReporterStep == ReporterInit \/ ReporterLoop \/ ReporterWake \/ ReporterSend
ProgressStep == ProgressLoop \/ ProgressWake

\* amplify-sim.py
Init ==
    /\ prog = "amplify"
    /\ InitCommon /\ InitAmplify
    /\ threads = 1 /\ callCap = 0 /\ reportCap = 0
    /\ fsFault = "none"
    /\ InitMiner

Spec == Init /\ [][NextAmplify]_vars

\* amplify-sim.py left undisturbed through the stages of its first cycle,
\* simulate_mining among them: no KeyboardInterrupt, no unexpected exception
NextMining ==
    \/ Main
    \/ SimulateAwsCredentials
    \/ BuildStart
    \/ StageBegin
    \/ SleepReturn
    \/ StageEnd
    \/ MiningStart
    \/ MiningTick
    \/ MiningEnd

\* the main thread inside simulate_mining keeps running
MiningFairness == WF_vars(MiningStart \/ MiningTick \/ MiningEnd)

SpecMiningFair == Init /\ [][NextMining]_vars /\ MiningFairness

\* fake_cryptominer.py, the counters followed through MaxCalls calls
InitMinerProg ==
    /\ prog = "miner"
    /\ InitCommon /\ InitAmplify
    /\ threads \in 1..MaxThreads /\ callCap = MaxCalls /\ reportCap = MaxReports
    /\ fsFault = "none"
    /\ InitMiner

SpecMiner == InitMinerProg /\ [][NextMiner]_vars

\* fake_cryptominer.py, every thread scheduled fairly: a thread that can take a
\* step is not passed over for ever. The KeyboardInterrupt is the
\* environment's and may never come.
InitSmallMiner ==
    /\ prog = "miner"
    /\ InitCommon /\ InitAmplify
    /\ threads \in 1..SmallThreads /\ callCap = SmallCalls /\ reportCap = SmallReports
    /\ fsFault = "none"
    /\ InitMiner

Fairness ==
    /\ WF_vars(MainStep)
    /\ \A w \in 1..SmallThreads : WF_vars(w \in Workers /\ WorkerStep(w))
    /\ WF_vars(ReporterStep)
    /\ WF_vars(ProgressStep)

SpecMinerFair == InitSmallMiner /\ [][NextMiner]_vars /\ Fairness

\* either program, from its start
InitBoth ==
    /\ prog \in {"amplify", "miner"}
    /\ InitCommon /\ InitAmplify
    /\ threads \in 1..SmallThreads /\ callCap = SmallCalls /\ reportCap = SmallReports
    /\ fsFault = "none"
    /\ InitMiner

NextBoth == NextAmplify \/ NextMiner

SpecBoth == InitBoth /\ [][NextBoth]_vars

\* either program, the miner with the least default number of cpu workers:
\* the workers send nothing, the notifications are those of the main thread
\* and of the reporter thread
InitSends ==
    /\ prog \in {"amplify", "miner"}
    /\ InitCommon /\ InitAmplify
    /\ threads = MinThreads /\ callCap = SmallCalls /\ reportCap = SmallReports
    /\ fsFault = "none"
    /\ InitMiner

SpecSends == InitSends /\ [][NextBoth]_vars

\* the miner with the least default number of cpu workers, its reporter thread
\* followed through ManyReports periodic reports
InitReporter ==
    /\ prog = "miner"
    /\ InitCommon /\ InitAmplify
    /\ threads = MinThreads /\ callCap = SmallCalls /\ reportCap = ManyReports
    /\ fsFault = "none"
    /\ InitMiner

SpecReporter == InitReporter /\ [][NextMiner]_vars

\* the miner started on a file system that may refuse the directories or the
\* files of _setup_directories
InitSetup ==
    /\ prog = "miner"
    /\ InitCommon /\ InitAmplify
    /\ threads = MinThreads /\ callCap = SmallCalls /\ reportCap = SmallReports
    /\ fsFault \in SetupFaults
    /\ InitMiner

SpecSetup == InitSetup /\ [][NextMiner]_vars

----------------------------------------------------------------------------
\* Properties

StageMsgs == {"Stage started", "Stage completed"}

\* the stage events one cycle must emit, in order
ExpectedStageEvents ==
    [k \in 1..(2 * NumStages) |->
        <<IF k % 2 = 1 THEN "Stage started" ELSE "Stage completed",
          AMPLIFY_STAGES[(k + 1) \div 2]>>]

\* BUILD_ID of the c-th cycle
CycleBuild(c) == FirstBuildId + c - 1

\* the stage events emitted under build b, in order
StageEventsOf(b) ==
    LET sel == SelectSeq(notes, LAMBDA n : n.build = b /\ n.msg \in StageMsgs)
    IN  [k \in 1..Len(sel) |-> <<sel[k].msg, sel[k].about>>]

IsPrefix(s, t) == Len(s) <= Len(t) /\ \A k \in 1..Len(s) : s[k] = t[k]

\* the c-th call of simulate_build_process has returned
AfterCyclePcs == {"logs", "wait", "build_start"}
Returned(c) ==
    \/ c < cycle
    \/ c = cycle /\ (pc \in AfterCyclePcs \/ cancelledAt \in AfterCyclePcs
                     \/ faultAt \in AfterCyclePcs)

StageNoteCount == Cardinality({k \in 1..Len(notes) : notes[k].msg \in StageMsgs})

FoundSharePcs == {"fs_read", "fs_write", "acc_read", "acc_write", "rej_read", "rej_write"}
\* no worker is inside _found_share
Quiescent == \A w \in Workers : wpc[w] \notin FoundSharePcs

\* C1: whenever no worker is in the middle of _found_share,
\* shares_accepted + shares_rejected = shares_found
C1_SharesBalance ==
    Quiescent => shares_accepted + shares_rejected = shares_found

\* C2: in every cycle the stage events are a prefix of the fixed list
\* started/completed PROVISIONING, DOWNLOAD_SOURCE, BUILD, DEPLOY, VERIFY, and
\* the whole list once simulate_build_process has returned
C2_StageSequence ==
    \A c \in 1..cycle :
        LET ev == StageEventsOf(CycleBuild(c))
        IN  /\ IsPrefix(ev, ExpectedStageEvents)
            /\ Returned(c) => Len(ev) = 2 * NumStages
C2_Witness ==
    /\ cycle = 2 /\ pc = "wait"
    /\ Len(StageEventsOf(CycleBuild(2))) = 2 * NumStages

\* C3: a send that meets a transport failure logs exactly one failure line and
\* raises nothing; main's error handler is reached only by an exception raised
\* outside send_webhook; and when every send has failed, a returned
\* simulate_build_process has still attempted every stage event in order
C3_FailuresSwallowed ==
    /\ (last.posts = 1 /\ TransportFailed(last.outcome))
          => (last.failLogs = 1 /\ last.okLogs = 0 /\ ~last.escapes /\ ~last.ret)
    /\ pc = "error" => faultAt # "none"
    /\ \A c \in 1..cycle :
          (allFailed /\ Returned(c)) =>
              /\ Len(StageEventsOf(CycleBuild(c))) = 2 * NumStages
              /\ IsPrefix(StageEventsOf(CycleBuild(c)), ExpectedStageEvents)
C3_Witness ==
    /\ allFailed /\ pc = "logs" /\ cycle = 1 /\ faultAt = "none"
    /\ last.failLogs = 1 /\ last.outcome.raised
    /\ Len(notes) >= 2 * NumStages + 4

\* C4: no two workers are at once between the read and the write of the same
\* counter, and shares_found counts the completed _found_share calls
C4_MutualExclusion ==
    /\ \A v, w \in Workers :
          v # w => \A at \in {"fs_write", "acc_write", "rej_write"} :
                      ~(wpc[v] = at /\ wpc[w] = at)
    /\ Quiescent => shares_found = completed

\* C5: with the URL unset nothing is done: no POST, no notification, no cycle,
\* no FakeMiner, no thread; the program is at its start or has left with status 1
C5_NoUrlNoWork ==
    url = "" =>
        /\ notes = <<>> /\ last.posts = 0
        /\ cycle = 0 /\ pc \in {"main", "exited"}
        /\ ~minerBuilt /\ ~running /\ spawned = 0 /\ mpc \in {"m_main", "m_exited"}
        /\ (pc = "exited" \/ mpc = "m_exited") => exitStatus = 1
        /\ (prog = "amplify" /\ pc = "main") \/ (prog = "miner" /\ mpc = "m_main")
              \/ exitStatus = 1
C5_Witness == url = "" /\ prog = "miner" /\ mpc = "m_exited" /\ exitStatus = 1

\* C6: a cycle emits "Build completed" at most once; once
\* simulate_build_process has returned it has emitted it exactly once; and it
\* is emitted after all 2 * NumStages stage-boundary notifications of the cycle
C6_CycleNotifications ==
    \A c \in 1..cycle :
        LET b == CycleBuild(c)
            done == {k \in 1..Len(notes) :
                        notes[k].build = b /\ notes[k].msg = "Build completed"}
            bounds == {k \in 1..Len(notes) :
                        notes[k].build = b /\ notes[k].msg \in StageMsgs}
        IN  /\ Cardinality(done) <= 1
            /\ Returned(c) => Cardinality(done) = 1
            /\ \A d \in done :
                  /\ Cardinality(bounds) = 2 * NumStages
                  /\ \A k \in bounds : k < d
                  /\ notes[d - 1].msg = "Stage completed"
                  /\ notes[d - 1].about = AMPLIFY_STAGES[NumStages]
C6_Witness ==
    /\ cycle = 2 /\ pc = "logs"
    /\ InterimCount = 1
    /\ notes[Len(notes)].msg = "Build completed"

\* C7: shares_found never decreases
C7_SharesFoundMonotonic == [][shares_found' >= shares_found]_vars

StopFlagSet == stopAt # "none" /\ mpc \in {"m_stop_send", "m_done"}
AllStopped ==
    /\ \A w \in Workers : wpc[w] \in {"idle", "done"}
    /\ rpc \in {"idle", "done"}
    /\ ppc \in {"idle", "done"}
    /\ mpc = "m_done"
C10_SharesBounds ==
    /\ shares_accepted <= shares_found
    /\ shares_found - shares_accepted >= 0
    /\ Quiescent => shares_rejected = shares_found - shares_accepted

\* the place of a stage name in AMPLIFY_STAGES
StageIndex(name) == CHOOSE k \in 1..NumStages : AMPLIFY_STAGES[k] = name

\* C11: the current stage is one of the fixed stages, the stage reported by
\* the notifications of one cycle never moves backwards, and the "Build
\* started" of a following cycle does not report the terminal stage of the
\* cycle before
C11_StageResets ==
    /\ AMPLIFY_CURRENT_STAGE \in 0..(NumStages - 1)
    /\ \A j, k \in 1..Len(notes) :
          (j < k /\ notes[j].build = notes[k].build
                 /\ notes[j].msg \in StageMsgs /\ notes[k].msg \in StageMsgs)
              => StageIndex(notes[j].stage) <= StageIndex(notes[k].stage)
    /\ \A k \in 1..Len(notes) :
          (notes[k].msg = "Build started" /\ notes[k].build # FirstBuildId)
              => notes[k].stage # AMPLIFY_STAGES[NumStages]

\* C12: every identifier a notification carries (the footer's, the one in the
\* text of "Build started" and "Build completed", the one in the "Build URL")
\* is the identifier generated for the cycle the notification belongs to, and
\* the cycles' identifiers differ
C12_CycleIdentifiers ==
    /\ BUILD_ID = FirstBuildId + (IF cycle = 0 THEN 0 ELSE cycle - 1)
          \/ (pc = "build_start" /\ BUILD_ID = FirstBuildId + cycle)
          \/ (cancelledAt = "build_start" /\ BUILD_ID = FirstBuildId + cycle)
    /\ \A k \in 1..Len(notes) :
          /\ notes[k].msgBuild \in {0, notes[k].build}
          /\ notes[k].urlBuild \in {0, notes[k].build}

\* C13: an unexpected failure inside the try block leads to main's handler:
\* "Simulation error" is sent exactly once, as the last notification, and after
\* the failure no cycle is begun and no stage notification is sent
C13_FailureReportedOnce ==
    /\ [](faultAt # "none" =>
            /\ pc \in {"error", "done"}
            /\ pc = "error" => NoteCount("Simulation error", BUILD_ID) = 0
            /\ pc = "done" =>
                  /\ NoteCount("Simulation error", BUILD_ID) = 1
                  /\ notes[Len(notes)].msg = "Simulation error")
    /\ [][faultAt # "none" =>
            /\ cycle' = cycle
            /\ StageNoteCount' = StageNoteCount
            /\ BUILD_ID' = BUILD_ID]_vars
C13_Witness ==
    /\ faultAt = "mining_loop" /\ pc = "done" /\ cycle = 2
    /\ notes[Len(notes)].msg = "Simulation error"
    /\ last.posts = 1

\* C14: a send has failed (a failure line is logged, send_webhook returns
\* False) exactly when the transport raised or answered outside 200..299
C14_SuccessIs2xx ==
    last.posts = 1 =>
        /\ (last.failLogs = 1) <=> TransportFailed(last.outcome)
        /\ (last.okLogs = 1) <=> ~TransportFailed(last.outcome)
        /\ prog = "amplify" => (last.ret <=> ~TransportFailed(last.outcome))

\* the notifications with text msg, in either program
MsgCount(msg) == Cardinality({k \in 1..Len(notes) : notes[k].msg = msg})

\* the events a build cycle emits once
OncePerCycleMsgs == {"Build started", "Mining started", "Mining completed",
                     "Build completed", "Build logs contain suspicious commands"}
\* the events a run emits once
OncePerRunMsgs == {"Build environment contains AWS credentials", "Simulation stopped",
                   "Simulation error", "Miner started", "Miner stopped"}
PeriodicMsgs == {"Mining operation in progress",
                 "Detailed status report of the simulated cryptominer"}

\* the notifications before the latest one
Earlier == 1..(Len(notes) - 1)

\* C15: a send call makes one POST whatever the outcome, and no event is
\* handed to the transport twice: when the latest notification is a once-only
\* event, no earlier notification of the run (of the cycle) is the same event,
\* a stage event has no earlier one for the same stage of the cycle, and the
\* miner has sent one periodic report for each count of report_count
C15_NoRetry ==
    /\ last.posts <= 1
    /\ notes # <<>> =>
          LET n == notes[Len(notes)]
          IN  /\ n.msg \in OncePerRunMsgs => \A k \in Earlier : notes[k].msg # n.msg
              /\ (prog = "amplify" /\ n.msg \in OncePerCycleMsgs) =>
                    \A k \in Earlier : ~(notes[k].msg = n.msg /\ notes[k].build = n.build)
              /\ (prog = "amplify" /\ n.msg \in StageMsgs) =>
                    \A k \in Earlier : ~(/\ notes[k].msg = n.msg
                                         /\ notes[k].build = n.build
                                         /\ notes[k].about = n.about)
    /\ prog = "miner" =>
          MsgCount("Mining operation in progress")
            + MsgCount("Detailed status report of the simulated cryptominer")
              = report_count - (IF rpc = "r_send" THEN 1 ELSE 0)
C15_Witness ==
    /\ prog = "amplify" /\ pc = "wait" /\ cycle = 1 /\ allFailed
    /\ last.posts = 1 /\ last.failLogs = 1
    /\ Len(notes) = 2 * NumStages + 5

\* C16: the duration drawn for a stage lies in 30..90 for BUILD and in 10..30
\* for every other stage, and the BUILD range is the wider one
C16_DurationInRange ==
    /\ pc \in {"sleeping", "mining_start", "mining_loop", "stage_end"} => duration # 0
    /\ duration # 0 =>
          IF AMPLIFY_STAGES[AMPLIFY_CURRENT_STAGE + 1] = "BUILD"
          THEN duration \in BuildMinSeconds..BuildMaxSeconds
          ELSE duration \in StageMinSeconds..StageMaxSeconds
    /\ BuildMaxSeconds - BuildMinSeconds > StageMaxSeconds - StageMinSeconds
C16_Witness ==
    /\ pc = "sleeping" /\ duration = StageMinSeconds
    /\ \E k \in 1..Len(notes) : notes[k].msg = "Mining completed"

\* the colors of the three severities
SeverityColor == [info |-> "good", warn |-> "warning", danger |-> "danger"]
Colors == {SeverityColor[sev] : sev \in DOMAIN SeverityColor}

\* C17: every notification of either program has one of the three colors,
\* and an event always has the same color: the latest notification has the
\* color of every earlier notification of the same event
C17_ColorsEnumerated ==
    /\ \A k \in 1..Len(notes) : notes[k].color \in Colors
    /\ \A k \in Earlier :
          notes[k].msg = notes[Len(notes)].msg => notes[k].color = notes[Len(notes)].color
C17_Witness ==
    /\ prog = "amplify" /\ pc = "done"
    /\ {notes[k].color : k \in 1..Len(notes)} = Colors

MiningMsgs == {"Mining started", "Mining in progress", "Mining completed"}
AbortMsgs == {"Simulation stopped", "Simulation error"}

\* C18: the mining notifications lie between "Stage started: BUILD" and
\* "Stage completed: BUILD" of their cycle, "Mining started" first and "Mining
\* completed" last, and no other stage has any
C18_InterimOnlyInBuild ==
    \A k \in 1..Len(notes) :
        /\ notes[k].msg \in MiningMsgs =>
              /\ notes[k].stage = "BUILD"
              /\ k > 1
              /\ notes[k - 1].build = notes[k].build
              /\ IF notes[k].msg = "Mining started"
                 THEN notes[k - 1].msg = "Stage started" /\ notes[k - 1].about = "BUILD"
                 ELSE notes[k - 1].msg \in {"Mining started", "Mining in progress"}
        /\ (notes[k].msg = "Stage completed" /\ notes[k].about = "BUILD") =>
              notes[k - 1].msg = "Mining completed"
        /\ (notes[k].msg \in {"Mining started", "Mining in progress"} /\ k < Len(notes)) =>
              notes[k + 1].msg \in {"Mining in progress", "Mining completed"} \cup AbortMsgs
        /\ (notes[k].msg = "Mining completed" /\ k < Len(notes)) =>
              \/ notes[k + 1].msg = "Stage completed" /\ notes[k + 1].about = "BUILD"
              \/ notes[k + 1].msg \in AbortMsgs
C18_Witness ==
    /\ pc = "logs" /\ cycle = 1
    /\ \E k \in 1..Len(notes) :
          /\ notes[k].msg = "Mining in progress"
          /\ notes[k - 1].msg = "Mining started"
          /\ notes[k + 1].msg = "Mining completed"
          /\ notes[k + 2].msg = "Stage completed"

\* C19: whenever a tick of simulate_mining can find a share, it can find one
\* that is not accepted: the acceptance is a trial of its own
C19_AcceptanceTrial ==
    ENABLED (MiningTick /\ sim_shares_found' = sim_shares_found + 1)
        => ENABLED (/\ MiningTick
                    /\ sim_shares_found' = sim_shares_found + 1
                    /\ sim_shares_accepted' = sim_shares_accepted)

\* C20 as amended: after "Miner stopped" the reporter sends at most one more
\* notification, and it never decides on a periodic report once the flag is
\* cleared
C20_AtMostInFlight ==
    /\ [](prog = "miner" =>
            \A k \in 1..Len(notes) :
                notes[k].msg = "Miner stopped" => Len(notes) - k <= 1)
    /\ [][(rpc' = "r_send" /\ rpc # "r_send") => running]_vars
C20_Witness ==
    /\ prog = "miner" /\ mpc = "m_done" /\ rpc = "done"
    /\ Len(notes) = 3
    /\ notes[2].msg = "Miner stopped"
    /\ notes[3].msg = "Mining operation in progress"
\* C20 as stated: no notification follows "Miner stopped"
C20_NoReportAfterStop ==
    prog = "miner" =>
        \A k \in 1..Len(notes) : notes[k].msg = "Miner stopped" => k = Len(notes)

\* the periodic reports sent so far, in order
PeriodicSent == SelectSeq(notes, LAMBDA n : n.msg \in PeriodicMsgs)

\* C21: "Miner started" is sent before any periodic report, and the k-th
\* periodic report is the detailed one exactly when k is a multiple of 5
C21_EveryFifthDetailed ==
    /\ \A k \in 1..Len(notes) :
          notes[k].msg \in PeriodicMsgs =>
              \E j \in 1..(k - 1) : notes[j].msg = "Miner started"
    /\ \A k \in 1..Len(PeriodicSent) :
          PeriodicSent[k].msg =
              IF k % 5 = 0 THEN "Detailed status report of the simulated cryptominer"
                           ELSE "Mining operation in progress"
    /\ Len(PeriodicSent) = report_count - (IF rpc = "r_send" THEN 1 ELSE 0)
C21_Witness ==
    /\ Len(PeriodicSent) = 5 /\ running
    /\ PeriodicSent[4].msg = "Mining operation in progress"
    /\ PeriodicSent[5].msg = "Detailed status report of the simulated cryptominer"

\* C22: the reporter thread ends only once the flag is cleared; whatever a
\* report's outcome the thread is back at the test of its loop, from where,
\* with the flag set, it sleeps; and report_count advances by one per attempt
C22_ReporterSurvivesFailure ==
    /\ [](rpc = "done" => ~running)
    /\ []((rpc = "r_loop" /\ running) => ENABLED ReporterLoop)
    /\ [][(rpc = "r_send" /\ rpc' # "r_send") => rpc' = "r_loop"]_vars
    /\ [][(rpc = "r_loop" /\ rpc' # "r_loop" /\ running) => rpc' = "r_sleep"]_vars
    /\ [][(rpc' = "r_send" /\ rpc # "r_send") => report_count' = report_count + 1]_vars
    /\ [][report_count' # report_count => (rpc = "r_sleep" /\ rpc' = "r_send")]_vars
C22_Witness ==
    /\ running /\ rpc = "r_send" /\ report_count = 2
    /\ last.failLogs = 1 /\ last.outcome.raised
    /\ Len(PeriodicSent) = 1

\* C23: the Build URL of every "Build completed" notification is derived from
\* the build identifier that its message text and its footer carry
C23_BuildUrlCurrent ==
    prog = "amplify" =>
        \A k \in 1..Len(notes) :
            notes[k].msg = "Build completed" =>
                /\ notes[k].msgBuild = notes[k].build
                /\ notes[k].urlBuild = notes[k].msgBuild

\* the two notifications main() sends outside the build cycle
LogsMsg == "Build logs contain suspicious commands"
CredentialsMsg == "Build environment contains AWS credentials"

\* C24: a build-logs notification directly follows the "Build completed" of its
\* own cycle, and nothing but it (or the report of an abort) follows a "Build
\* completed"; the wait starts with it as the latest notification and sends
\* nothing; the credential notification can only be the very first one
C24_LogsAfterEachCycle ==
    /\ [](prog = "amplify" =>
            /\ \A k \in 1..Len(notes) :
                  /\ notes[k].msg = LogsMsg =>
                        /\ k > 1
                        /\ notes[k - 1].msg = "Build completed"
                        /\ notes[k - 1].build = notes[k].build
                  /\ (notes[k].msg = "Build completed" /\ k < Len(notes)) =>
                        notes[k + 1].msg \in {LogsMsg} \cup AbortMsgs
                  /\ notes[k].msg = CredentialsMsg => k = 1
            /\ pc = "wait" =>
                  /\ notes[Len(notes)].msg = LogsMsg
                  /\ notes[Len(notes)].build = BUILD_ID
                  /\ NoteCount(LogsMsg, BUILD_ID) = 1
                  /\ NoteCount("Build completed", BUILD_ID) = 1)
    /\ [][(prog = "amplify" /\ pc = "wait") => notes' = notes]_vars
C24_Witness ==
    /\ prog = "amplify" /\ pc = "wait" /\ BUILD_ID = FirstBuildId + 1
    /\ notes[1].msg = CredentialsMsg
    /\ NoteCount(LogsMsg, FirstBuildId) = 1
    /\ NoteCount(LogsMsg, BUILD_ID) = 1

\* the main thread is inside simulate_mining
MiningPcs == {"mining_start", "mining_loop"}

\* C25: simulate_mining returns for every drawn duration; inside its loop the
\* elapsed time is between 5 and 10 seconds per tick and below the duration
\* plus one tick, the ticks number at most ceil(duration / 5); a tick is taken
\* only with elapsed < duration and the function returns only after at least
\* one tick, at a test with elapsed >= duration
C25_MiningTerminates ==
    /\ (pc \in MiningPcs) ~> (pc \notin MiningPcs)
    /\ [](pc = "mining_loop" =>
            /\ duration \in BuildMinSeconds..BuildMaxSeconds
            /\ ticks * TickMinSeconds <= elapsed
            /\ elapsed <= ticks * TickMaxSeconds
            /\ elapsed < duration + TickMaxSeconds
            /\ (ticks - 1) * TickMinSeconds < duration)
    /\ [][(pc = "mining_loop" /\ ticks' = ticks + 1) => elapsed < duration]_vars
    /\ [][(pc = "mining_loop" /\ pc' = "stage_end") =>
             (elapsed >= duration /\ ticks >= 1)]_vars
C25_Witness ==
    /\ pc = "mining_loop"
    /\ duration = BuildMinSeconds
    /\ ticks * TickMinSeconds = duration
    /\ ~(elapsed < duration)

\* C26: when a step of _setup_directories fails the error is logged and the
\* constructor still completes with the identifiers set; start() can then set
\* the flag and start every worker, and the reporter, once started, sends
\* "Miner started"
C26_SetupFailureNonFatal ==
    (prog = "miner" /\ fsFault # "none") =>
        /\ mpc # "m_killed"
        /\ mpc \notin {"m_main", "m_exited"} =>
              (setupLog = "error" /\ minerBuilt /\ idsSet)
        /\ mpc = "m_start" => ENABLED Start
        /\ (mpc = "m_spawn" /\ spawned < threads) => ENABLED StartCpuSimulation
        /\ (mpc = "m_spawn" /\ spawned = threads) => ENABLED StartSlackReporting
        /\ rpc = "r_init" => ENABLED ReporterInit
        /\ rpc \notin {"idle", "r_init"} =>
              \E k \in 1..Len(notes) : notes[k].msg = "Miner started"
C26_Witness ==
    /\ prog = "miner" /\ fsFault = "files" /\ setupLog = "error"
    /\ minerBuilt /\ idsSet /\ running
    /\ spawned = threads /\ \A w \in Workers : wpc[w] # "idle"
    /\ notes # <<>> /\ notes[1].msg = "Miner started"

====
